---- MODULE Spec2Model ----
(***************************************************************************)
(* State-machine model of password-store-rs: the library commands          *)
(* (commands/add.rs, commands/init.rs, commands/show.rs, commands/find.rs  *)
(* with the tree program it runs), the gpg and git integrations they call, *)
(* the path validator and the tree listing of utils.rs, and the init,      *)
(* find, extension and signature-verification handlers of main.rs.         *)
(*                                                                         *)
(* Strings are sequences of one-character strings, so that trimming,       *)
(* splitting, prefix/suffix tests and path formatting are computed as the  *)
(* code computes them.  A filesystem path is resolved to its sequence of   *)
(* components; the filesystem is the set of directories plus a map from    *)
(* file paths to contents.                                                 *)
(***************************************************************************)
EXTENDS Integers, Sequences, FiniteSets, TLC

VARIABLES
    dirs,      \* set of existing directories (resolved component sequences)
    files,     \* existing regular files: resolved path -> content record
    signing,   \* PASSWORD_STORE_SIGNING_KEY is set and non-blank
    pc,        \* position of the running command: "idle", "walk", "enc"
    cur,       \* the running (or last) command: its arguments and what it did
    status,    \* "running", or how the last command ended
    walk,      \* reencrypt_dir: the .gpg files in traversal order
    idx,       \* reencrypt_dir: index in walk of the file being processed
    child,     \* the spawned `gpg --encrypt --output <file>` process
    clean      \* every command before the running (or last) one ended "ok"

vars == <<dirs, files, signing, pc, cur, status, walk, idx, child, clean>>

(***************************************************************************)
(* Bounds and input universes                                              *)
(***************************************************************************)
\* longest raw name handed to the path validator
MaxNameLen == 6

\* characters raw names are built from
NameChars == {".", "/", "x"}

\* longest plaintext typed into add in the round-trip specification
MaxPlainLen == 2

\* characters of plaintexts: a letter, a blank and a line break
PlainChars == {"p", " ", "\n"}

RECURSIVE SeqsUpTo(_, _)
SeqsUpTo(S, n) ==
    IF n = 0 THEN {<<>>}
    ELSE LET shorter == SeqsUpTo(S, n - 1)
         IN  shorter \cup {Append(s, c) : s \in shorter, c \in S}

RawNames == SeqsUpTo(NameChars, MaxNameLen)

RawPlains == SeqsUpTo(PlainChars, MaxPlainLen) \ {<<>>}

(***************************************************************************)
(* String primitives (Rust str methods)                                    *)
(***************************************************************************)
starts_with(s, p) == Len(s) >= Len(p) /\ SubSeq(s, 1, Len(p)) = p

ends_with(s, p) == Len(s) >= Len(p) /\ SubSeq(s, Len(s) - Len(p) + 1, Len(s)) = p

contains(s, p) == \E i \in 1..(Len(s) - Len(p) + 1) : SubSeq(s, i, i + Len(p) - 1) = p

is_whitespace(c) == c \in {" ", "\n", "\t"}

RECURSIVE trim_start(_)
trim_start(s) ==
    IF s # <<>> /\ is_whitespace(Head(s)) THEN trim_start(Tail(s)) ELSE s

RECURSIVE trim_end(_)
trim_end(s) ==
    IF s # <<>> /\ is_whitespace(s[Len(s)]) THEN trim_end(SubSeq(s, 1, Len(s) - 1)) ELSE s

trim(s) == trim_end(trim_start(s))

\* index of the first occurrence of character c in s, 0 when there is none
RECURSIVE find_from(_, _, _)
find_from(s, c, i) ==
    IF i > Len(s) THEN 0 ELSE IF s[i] = c THEN i ELSE find_from(s, c, i + 1)

\* path.splitn(2, '/'): <<text before the first '/', text after it>>;
\* parts.next().unwrap_or("") makes the second part empty when there is no '/'.
splitn2(s) ==
    LET i == find_from(s, "/", 1)
    IN  IF i = 0 THEN <<s, <<>>>>
        ELSE <<SubSeq(s, 1, i - 1), SubSeq(s, i + 1, Len(s))>>

\* s.split(c): every segment, empty ones included
RECURSIVE split_on(_, _)
split_on(s, c) ==
    LET i == find_from(s, c, 1)
    IN  IF i = 0 THEN <<s>>
        ELSE <<SubSeq(s, 1, i - 1)>> \o split_on(SubSeq(s, i + 1, Len(s)), c)

\* the components of a path string
split(s) == split_on(s, "/")

(***************************************************************************)
(* Fixed strings of the program                                            *)
(***************************************************************************)
\* the store root, PASSWORD_STORE_DIR: the directory /s
PREFIX == <<"/", "s">>

DOTDOT == <<".", ".">>

GPG_EXT == <<".", "g", "p", "g">>

GPG_ID == <<".", "g", "p", "g", "-", "i", "d">>

SIG_EXT == <<".", "s", "i", "g">>

\* format!("{}/{}.gpg", &*PREFIX, pass_name)
passfile_of(pass_name) == PREFIX \o <<"/">> \o pass_name \o GPG_EXT

\* format!("{}/.gpg-id", dir)
gpg_id_file_of(dir) == dir \o <<"/">> \o GPG_ID

\* the store directory cmd_init works on
store_dir_of(subfolder) ==
    IF subfolder = <<>> THEN PREFIX ELSE PREFIX \o <<"/">> \o subfolder

(***************************************************************************)
(* PathValidator                                                           *)
(***************************************************************************)
\* the test of the loop body with the `path == ".."` comparison left out
sneaky_without_eq(path) ==
    \/ ends_with(path, <<"/", ".", ".">>)
    \/ starts_with(path, <<".", ".", "/">>)
    \/ contains(path, <<"/", ".", ".", "/">>)

\* the test of the loop body of check_sneaky_paths
sneaky(path) ==
    \/ ends_with(path, <<"/", ".", ".">>)
    \/ starts_with(path, <<".", ".", "/">>)
    \/ contains(path, <<"/", ".", ".", "/">>)
    \/ path = DOTDOT

\* check_sneaky_paths(paths): TRUE when it panics
check_sneaky_paths(paths) == \E i \in 1..Len(paths) : sneaky(paths[i])

(***************************************************************************)
(* Filesystem                                                              *)
(***************************************************************************)
\* the kernel's resolution of a path string: empty and "." components are
\* skipped, ".." steps to the parent (the parent of "/" is "/")
RECURSIVE resolve_from(_, _)
resolve_from(done, segs) ==
    IF segs = <<>> THEN done
    ELSE LET h == Head(segs)
         IN  IF h = <<>> \/ h = <<".">> THEN resolve_from(done, Tail(segs))
             ELSE IF h = DOTDOT
                  THEN resolve_from(IF done = <<>> THEN <<>>
                                    ELSE SubSeq(done, 1, Len(done) - 1), Tail(segs))
                  ELSE resolve_from(Append(done, h), Tail(segs))

resolve(path) == resolve_from(<<>>, split(path))

StoreRoot == resolve(PREFIX)

is_prefix(p, q) == Len(p) <= Len(q) /\ SubSeq(q, 1, Len(p)) = p

is_child(p, d) == Len(p) = Len(d) + 1 /\ is_prefix(d, p)

parent_of(p) == SubSeq(p, 1, Len(p) - 1)

file_name(p) == p[Len(p)]

is_dir(path) == resolve(path) \in dirs

is_file(path) == resolve(path) \in DOMAIN files

\* a test that is also satisfied when only the directory of the path exists
exists_or_in_dir(path) ==
    \/ resolve(path) \in dirs \cup DOMAIN files
    \/ parent_of(resolve(path)) \in dirs

exists(path) == is_dir(path) \/ is_file(path)

\* fs::create_dir_all(p): p and every missing ancestor
create_dir_all(ds, p) == ds \cup {SubSeq(p, 1, n) : n \in 0..Len(p)}

write_file(fs, p, c) == (p :> c) @@ fs

remove_file(fs, p) == [q \in DOMAIN fs \ {p} |-> fs[q]]

dir_is_empty(ds, fs, d) == ~\E p \in ds \cup DOMAIN fs : is_child(p, d)

\* Path::extension of a file name: the text after the last '.', unless the
\* name has no '.' or its only '.' is the first character
RECURSIVE last_dot(_, _)
last_dot(name, i) ==
    IF i = 0 THEN 0 ELSE IF name[i] = "." THEN i ELSE last_dot(name, i - 1)

extension(name) ==
    LET i == last_dot(name, Len(name))
    IN  IF i <= 1 THEN <<>> ELSE SubSeq(name, i + 1, Len(name))

(***************************************************************************)
(* File contents                                                           *)
(***************************************************************************)
\* a text file that is created but whose content is not written
Text_unwritten(t) == [kind |-> "text", data |-> <<>>, rcpt |-> <<>>]

Text(t) == [kind |-> "text", data |-> t, rcpt |-> <<>>]

\* a complete OpenPGP message: plaintext pt encrypted to recipient r
Cipher(pt, r) == [kind |-> "cipher", data |-> pt, rcpt |-> r]

\* an output file gpg has opened and not finished writing
Partial == [kind |-> "partial", data |-> <<>>, rcpt |-> <<>>]

Signature == [kind |-> "sig", data |-> <<>>, rcpt |-> <<>>]

NoFile == [kind |-> "none", data |-> <<>>, rcpt |-> <<>>]

content_of(fs, p) == IF p \in DOMAIN fs THEN fs[p] ELSE NoFile

(***************************************************************************)
(* Encryption backend (the gpg executable)                                 *)
(***************************************************************************)
\* `gpg -d <file>`: the possible <<exit status ok, stdout>> pairs.  A complete
\* message decrypts when a private key for it is available and fails
\* otherwise; anything else is not a valid message and fails.
gpg_decrypt(c) ==
    IF c.kind = "cipher"
    THEN {[ok |-> TRUE, stdout |-> c.data], [ok |-> FALSE, stdout |-> <<>>]}
    ELSE {[ok |-> FALSE, stdout |-> <<>>]}

\* a spawned gpg whose stdin is closed before anything is written to it
Spawned_without_input(f, r, pt, before) ==
    [file |-> f, rcpt |-> r, pt |-> <<>>, opened |-> FALSE, before |-> before]

\* the state of a spawned `gpg --encrypt --yes --batch --recipient r --output f`
Spawned(f, r, pt, before) ==
    [file |-> f, rcpt |-> r, pt |-> pt, opened |-> FALSE, before |-> before]

NoChild == Spawned(<<>>, <<>>, <<>>, NoFile)

\* git_add_file: not inside a repository (Ok), added and committed (Ok),
\* or `git add` failed (Err)
GitOutcomes == {"norepo", "ok", "fail"}

recorded(g) == IF g = "ok" THEN 1 ELSE 0

(***************************************************************************)
(* Directory traversal of reencrypt_dir                                    *)
(***************************************************************************)
Perms(S) ==
    {s \in [1..Cardinality(S) -> S] : \A i, j \in 1..Cardinality(S) : i # j => s[i] # s[j]}

\* Every order in which reencrypt_dir can meet the .gpg files under d: fs::read_dir
\* yields the entries of a directory in an order the filesystem chooses, and a
\* sub-directory is walked to its end when it is met.
RECURSIVE reencrypt_dir_orders(_, _, _)
reencrypt_dir_orders(ds, fs, d) ==
    LET kids == {p \in ds : is_child(p, d)}
                \cup {p \in DOMAIN fs : is_child(p, d) /\ extension(file_name(p)) = <<"g", "p", "g">>}
        RECURSIVE cat(_, _)
        cat(perm, i) ==
            IF i > Len(perm) THEN {<<>>}
            ELSE {w \o rest :
                    w \in (IF perm[i] \in ds THEN reencrypt_dir_orders(ds, fs, perm[i])
                           ELSE {<<perm[i]>>}),
                    rest \in cat(perm, i + 1)}
    IN  UNION {cat(perm, 1) : perm \in Perms(kids)}

(***************************************************************************)
(* TreeRenderer (utils::print_dir_structure)                               *)
(***************************************************************************)
\* the box-drawing character U+2500 of the listing, written as '-'
BOX == "-"

\* format!("{}    ", prefix)
INDENT == <<" ", " ", " ", " ">>

\* println!("{}─ {}", prefix, name)
tree_line(prefix, name) == prefix \o <<BOX, " ">> \o name

\* the lines the loop body prints for a regular file
file_lines(prefix, filename) ==
    IF starts_with(filename, <<".">>) THEN <<>>
    ELSE IF ends_with(filename, GPG_EXT)
         THEN <<tree_line(prefix, SubSeq(filename, 1, Len(filename) - 4))>>
         ELSE <<tree_line(prefix, filename)>>

\* print_dir_structure(path, prefix): every line sequence it can print, one
\* for each order in which fs::read_dir can yield the entries of a directory
RECURSIVE print_dir_structure(_, _, _, _)
print_dir_structure(ds, fs, d, prefix) ==
    LET kids == {p \in ds \cup DOMAIN fs : is_child(p, d)}
        RECURSIVE cat(_, _)
        cat(perm, i) ==
            IF i > Len(perm) THEN {<<>>}
            ELSE {w \o rest :
                    w \in (IF perm[i] \in ds
                           THEN {<<tree_line(prefix, file_name(perm[i]))>> \o sub :
                                   sub \in print_dir_structure(ds, fs, perm[i], prefix \o INDENT)}
                           ELSE {file_lines(prefix, file_name(perm[i]))}),
                    rest \in cat(perm, i + 1)}
    IN  IF d \notin ds THEN {<<>>}
        ELSE UNION {cat(perm, 1) : perm \in Perms(kids)}

\* "Password Store"
PASSWORD_STORE ==
    <<"P", "a", "s", "s", "w", "o", "r", "d", " ", "S", "t", "o", "r", "e">>

\* passfile.trim_end_matches('/')
RECURSIVE trim_end_matches(_, _)
trim_end_matches(s, c) ==
    IF s # <<>> /\ s[Len(s)] = c THEN trim_end_matches(SubSeq(s, 1, Len(s) - 1), c) ELSE s

(***************************************************************************)
(* Commands                                                                *)
(***************************************************************************)
Command(cmd, arg, input, force) ==
    [cmd |-> cmd, arg |-> arg, input |-> input, force |-> force,
     path |-> <<>>,        \* the path string it made filesystem calls with
     rcpt |-> <<>>,        \* the recipient it read from a .gpg-id
     asked |-> FALSE,      \* it waited for an overwrite confirmation on stdin
     commits |-> 0,        \* history records it made
     errpath |-> <<>>,     \* the path its error message names
     listed |-> FALSE,     \* it printed the store listing
     dec_ok |-> FALSE,     \* `gpg -d` exited with status 0
     out |-> <<>>,         \* the text it printed for an entry
     lines |-> <<>>,       \* the lines of the listing it printed
     verified |-> FALSE,   \* verify_file found a valid signature for it
     gpg_status |-> <<>>]  \* the status lines `gpg --verify` printed for it

Init ==
    /\ dirs = {<<>>}
    /\ files = <<>>
    /\ signing = FALSE
    /\ pc = "idle"
    /\ cur = Command("none", <<>>, <<>>, FALSE)
    /\ status = "ok"
    /\ walk = <<>>
    /\ idx = 0
    /\ child = NoChild
    /\ clean = TRUE

\* a command starts: whether all the commands before it succeeded
Starts == clean' = (clean /\ status = "ok")

\* a command that ends in the step that started it
Ends(c, st) ==
    /\ cur' = c
    /\ status' = st
    /\ pc' = "idle"
    /\ walk' = <<>>
    /\ idx' = 0
    /\ child' = NoChild

\* io::stdin().read_line: the text up to and including the first line break
first_line(typed) ==
    LET i == find_from(typed, "\n", 1)
    IN  IF i = 0 THEN typed ELSE SubSeq(typed, 1, i)

\* rpassword::prompt_password: one line, its line break removed
prompt_password(typed) ==
    LET i == find_from(typed, "\n", 1)
    IN  IF i = 0 THEN typed ELSE SubSeq(typed, 1, i - 1)

\* the text of a path string before its last '/'
RECURSIVE last_slash(_, _)
last_slash(s, i) ==
    IF i = 0 THEN 0 ELSE IF s[i] = "/" THEN i ELSE last_slash(s, i - 1)

path_parent(s) == SubSeq(s, 1, last_slash(s, Len(s)) - 1)

\* the outcomes of add's check for the recipient's public key: found; missing
\* and generated on request; missing and the user declines; generation fails;
\* still missing after generation
KeyChecks == {"found", "generated", "declined", "genfail", "stillmissing"}

\* commands::add::cmd_add(pass_name, maybe_password, multiline, echo, force), up to
\* the spawn of gpg.  maybe_password is <<p>> for Some(p) and <<>> for None;
\* typed and retyped are what the user enters at the password prompts before
\* Enter (or before Ctrl+D in multiline mode), key the outcome of the
\* public-key check, overwrite the answer to the overwrite prompt.
cmd_add(pass_name, maybe_password, multiline, echo, force, typed, retyped, key, overwrite) ==
    LET passfile == passfile_of(pass_name)
        gpg_id_file == gpg_id_file_of(PREFIX)
        target == resolve(passfile)
        parent == resolve(path_parent(passfile))
        c0 == Command("add", pass_name,
                      IF maybe_password # <<>> THEN maybe_password[1] ELSE typed, force)
        recipient == trim(files[resolve(gpg_id_file)].data)
        c2 == [c0 EXCEPT !.rcpt = recipient]
        asks == ~force /\ exists(passfile)
        c3 == [c2 EXCEPT !.asked = asks, !.path = passfile]
        line1 == Append(typed, "\n")
        line2 == Append(retyped, "\n")
        password ==
            IF maybe_password # <<>> THEN maybe_password[1]
            ELSE IF multiline THEN trim(typed)
            ELSE IF ~echo THEN prompt_password(line1)
            ELSE trim(first_line(line1))
    IN  /\ pc = "idle"
        /\ Starts
        /\ UNCHANGED signing
        /\ IF ~exists(PREFIX)
           THEN Ends(c0, "store_missing") /\ UNCHANGED <<dirs, files>>
           ELSE IF ~is_file(gpg_id_file)
           THEN Ends(c0, "not_initialized") /\ UNCHANGED <<dirs, files>>
           ELSE IF key \notin {"found", "generated"}
           THEN Ends(c2, "no_key") /\ UNCHANGED <<dirs, files>>
           ELSE IF asks /\ ~overwrite
           THEN Ends(c3, "aborted") /\ UNCHANGED <<dirs, files>>
           ELSE IF \E n \in 1..Len(parent) : SubSeq(parent, 1, n) \in DOMAIN files
           THEN Ends(c3, "io") /\ UNCHANGED <<dirs, files>>
           ELSE /\ dirs' = create_dir_all(dirs, parent)
                /\ UNCHANGED files
                /\ IF maybe_password = <<>> /\ ~multiline /\ ~echo
                      /\ prompt_password(line1) # prompt_password(line2)
                   THEN Ends(c3, "mismatch")
                   ELSE /\ cur' = c3
                        /\ status' = "running"
                        /\ pc' = "enc"
                        /\ child' = Spawned(target, recipient, password,
                                            content_of(files, target))
                        /\ UNCHANGED <<walk, idx>>

\* commands::show::cmd_show(pass_name)
cmd_show(pass_name) ==
    LET passfile == passfile_of(pass_name)
        c0 == Command("show", pass_name, <<>>, FALSE)
        c1 == [c0 EXCEPT !.path = passfile]
    IN  /\ pc = "idle"
        /\ Starts
        /\ UNCHANGED <<dirs, files, signing>>
        /\ IF check_sneaky_paths(<<pass_name>>)
           THEN Ends(c0, "panic")
           ELSE IF exists(passfile)
           THEN \E r \in gpg_decrypt(content_of(files, resolve(passfile))) :
                    Ends([c1 EXCEPT !.out = Append(r.stdout, "\n"), !.dec_ok = r.ok], "ok")
           ELSE IF exists(PREFIX)
           THEN \E ls \in print_dir_structure(dirs, files, resolve(PREFIX), <<>>) :
                    Ends([c1 EXCEPT !.listed = TRUE,
                                    !.lines = <<IF pass_name = <<>> THEN PASSWORD_STORE
                                                ELSE trim_end_matches(passfile, "/")>> \o ls],
                         "ok")
           ELSE Ends(c1, "store_missing")

\* integrations::gpg::reencrypt_path(path), up to the first file: how it ends
\* at once ("" when it enters the walk), given the filesystem it runs on
reencrypt_path_error(ds, fs, path) ==
    IF resolve(path) \notin ds THEN "not_dir"
    ELSE IF resolve(gpg_id_file_of(path)) \notin DOMAIN fs THEN "not_initialized"
    ELSE IF trim(fs[resolve(gpg_id_file_of(path))].data) = <<>> THEN "no_recipient"
    ELSE ""

\* commands::init::cmd_init(path), up to the first file of reencrypt_dir.
\* g1 and g2 are the outcomes of git_add_file for .gpg-id and .gpg-id.sig,
\* grm whether git_remove_file's commit was recorded, sign_ok that of sign_file.
cmd_init(path, g1, sign_ok, g2, grm) ==
    LET parts == splitn2(path)
        gpg_id_input == parts[1]
        subfolder == parts[2]
        store_dir == store_dir_of(subfolder)
        gpg_id_file == gpg_id_file_of(store_dir)
        d == resolve(store_dir)
        idp == resolve(gpg_id_file)
        sigp == resolve(gpg_id_file \o SIG_EXT)
        c0 == [Command("init", subfolder, gpg_id_input, FALSE) EXCEPT !.path = store_dir]
        \* the deinitialization branch
        fs_rm == remove_file(files, idp)
        ds_rm == IF dir_is_empty(dirs, fs_rm, d) /\ d # <<>> THEN dirs \ {d} ELSE dirs
        c_rm == [c0 EXCEPT !.commits = recorded(grm), !.errpath = d]
        \* the initialization branch
        ds_in == create_dir_all(dirs, d)
        fs_id == write_file(files, idp, Text(gpg_id_input \o <<"\n">>))
        fs_sig == write_file(fs_id, sigp, Signature)
        signs == signing
        fs_in == IF signs THEN fs_sig ELSE fs_id
        n_in == recorded(g1) + (IF signs THEN recorded(g2) ELSE 0)
        c_in == [c0 EXCEPT !.commits = n_in,
                           !.rcpt = trim(fs_in[idp].data)]
    IN  /\ pc = "idle"
        /\ Starts
        /\ UNCHANGED signing
        /\ IF trim(gpg_id_input) = <<>>
           THEN IF ~exists(gpg_id_file)
                THEN Ends(c0, "cannot_remove") /\ UNCHANGED <<dirs, files>>
                ELSE /\ files' = fs_rm
                     /\ dirs' = ds_rm
                     \* reencrypt_path on the directory whose .gpg-id was just removed
                     /\ Ends(c_rm, reencrypt_path_error(ds_rm, fs_rm, store_dir))
           ELSE IF \E n \in 1..Len(d) : SubSeq(d, 1, n) \in DOMAIN files
           THEN Ends(c0, "io") /\ UNCHANGED <<dirs, files>>
           ELSE /\ dirs' = ds_in
                /\ IF g1 = "fail"
                   THEN files' = fs_id /\ Ends([c0 EXCEPT !.commits = 0], "git")
                   ELSE IF signs /\ ~sign_ok
                   THEN files' = fs_id /\ Ends([c0 EXCEPT !.commits = recorded(g1)], "sign")
                   ELSE IF signs /\ g2 = "fail"
                   THEN files' = fs_sig /\ Ends([c0 EXCEPT !.commits = recorded(g1)], "git")
                   ELSE /\ files' = fs_in
                        /\ IF reencrypt_path_error(ds_in, fs_in, store_dir) # ""
                           THEN Ends([c_in EXCEPT !.errpath = d],
                                     reencrypt_path_error(ds_in, fs_in, store_dir))
                           ELSE /\ cur' = c_in
                                /\ status' = "running"
                                /\ pc' = "walk"
                                /\ walk' \in reencrypt_dir_orders(ds_in, fs_in, d)
                                /\ idx' = 1
                                /\ child' = NoChild

\* main::cmd_init(path), the handler of main.rs: it creates the directory and
\* writes the GPG id as given, without a line break; it has no
\* deinitialization branch and does not re-encrypt.
main_cmd_init(path) ==
    LET parts == splitn2(path)
        gpg_id == parts[1]
        subfolder == parts[2]
        store_dir == store_dir_of(subfolder)
        gpg_id_file == gpg_id_file_of(store_dir)
        d == resolve(store_dir)
        idp == resolve(gpg_id_file)
        c0 == [Command("main_init", subfolder, gpg_id, FALSE) EXCEPT !.path = store_dir]
    IN  /\ pc = "idle"
        /\ Starts
        /\ UNCHANGED signing
        /\ IF \E n \in 1..Len(d) : SubSeq(d, 1, n) \in DOMAIN files
           THEN Ends(c0, "io") /\ UNCHANGED <<dirs, files>>
           ELSE /\ dirs' = create_dir_all(dirs, d)
                /\ IF idp \in dirs
                   THEN Ends(c0, "io") /\ UNCHANGED files
                   ELSE /\ files' = write_file(files, idp, Text(gpg_id))
                        /\ Ends([c0 EXCEPT !.rcpt = trim(gpg_id)], "ok")

\* reencrypt_dir, loop body for a .gpg file: `gpg -d`, then the spawn of the
\* encryption that writes to the same path
reencrypt_decrypt ==
    /\ pc = "walk"
    /\ idx <= Len(walk)
    /\ UNCHANGED <<dirs, files, signing, walk, idx, clean>>
    /\ \E r \in gpg_decrypt(content_of(files, walk[idx])) :
          IF ~r.ok
          THEN /\ cur' = [cur EXCEPT !.errpath = walk[idx]]
               /\ status' = "decrypt_failed"
               /\ pc' = "idle"
               /\ child' = NoChild
          ELSE /\ pc' = "enc"
               /\ child' = Spawned(walk[idx], cur.rcpt, r.stdout,
                                   content_of(files, walk[idx]))
               /\ UNCHANGED <<cur, status>>

\* reencrypt_dir returns Ok(()) and cmd_init records the re-encryption
reencrypt_done(g3) ==
    /\ pc = "walk"
    /\ idx > Len(walk)
    /\ UNCHANGED <<dirs, files, signing, walk, idx, child, clean>>
    /\ pc' = "idle"
    /\ IF g3 = "fail"
       THEN status' = "git" /\ cur' = [cur EXCEPT !.errpath = resolve(cur.path)]
       ELSE status' = "ok" /\ cur' = [cur EXCEPT !.commits = @ + recorded(g3)]

\* the error the parent reports when its gpg child fails
child_failed ==
    /\ pc' = "idle"
    /\ status' = "encrypt_failed"
    /\ cur' = [cur EXCEPT !.errpath = child.file]
    /\ child' = NoChild
    /\ UNCHANGED <<dirs, signing, walk, idx, clean>>

\* gpg exits non-zero before it opens its output (no usable key for the
\* recipient, stdin closed early)
gpg_fail_early ==
    /\ pc = "enc"
    /\ ~child.opened
    /\ UNCHANGED files
    /\ child_failed

\* gpg opens the path given to --output for writing; --yes lets it replace an
\* existing file, which from here on no longer holds its old content
gpg_open_output ==
    /\ pc = "enc"
    /\ ~child.opened
    /\ files' = write_file(files, child.file, Partial)
    /\ child' = [child EXCEPT !.opened = TRUE]
    /\ UNCHANGED <<dirs, signing, pc, cur, status, walk, idx, clean>>

\* gpg exits non-zero after it opened its output (write error, signal)
gpg_fail_late ==
    /\ pc = "enc"
    /\ child.opened
    /\ UNCHANGED files
    /\ child_failed

\* gpg writes the whole message and exits 0; the parent goes on: cmd_add
\* reports success, reencrypt_dir takes the next directory entry
gpg_finish ==
    /\ pc = "enc"
    /\ child.opened
    /\ files' = write_file(files, child.file, Cipher(child.pt, child.rcpt))
    /\ child' = NoChild
    /\ UNCHANGED <<dirs, signing, walk, cur, clean>>
    /\ IF cur.cmd = "add"
       THEN pc' = "idle" /\ status' = "ok" /\ UNCHANGED idx
       ELSE pc' = "walk" /\ idx' = idx + 1 /\ UNCHANGED status

\* the running command and its gpg child are terminated from outside
\* (interrupt, crash, power loss)
cancel ==
    /\ pc # "idle"
    /\ pc' = "idle"
    /\ status' = "killed"
    /\ child' = NoChild
    /\ UNCHANGED <<dirs, files, signing, cur, walk, idx, clean>>

(***************************************************************************)
(* Search (commands::find::cmd_find, main::cmd_find and the tree program)  *)
(***************************************************************************)
\* str::split_whitespace: the maximal runs of non-whitespace characters
RECURSIVE split_whitespace(_)
split_whitespace(s) ==
    LET t == trim_start(s)
        RECURSIVE word_end(_)
        word_end(i) == IF i > Len(t) \/ is_whitespace(t[i]) THEN i - 1 ELSE word_end(i + 1)
    IN  IF t = <<>> THEN <<>>
        ELSE <<SubSeq(t, 1, word_end(1))>>
             \o split_whitespace(SubSeq(t, word_end(1) + 1, Len(t)))

\* [String]::join
RECURSIVE join(_, _)
join(ws, sep) ==
    IF ws = <<>> THEN <<>>
    ELSE IF Len(ws) = 1 THEN ws[1]
    ELSE ws[1] \o sep \o join(Tail(ws), sep)

\* format!("*{}*", terms.join("*|*"))
find_pattern(terms) == <<"*">> \o join(terms, <<"*", "|", "*">>) \o <<"*">>

\* --ignore-case: the letters of the model's alphabets, folded to lower case
to_lower(c) ==
    CASE c = "A" -> "a"
      [] c = "G" -> "g"
      [] c = "X" -> "x"
      [] OTHER -> c

\* tree's match of a name against one alternative of a -P pattern: '*' is a
\* wildcard, every other character stands for itself, case ignored
RECURSIVE glob_match(_, _)
glob_match(s, p) ==
    IF p = <<>> THEN s = <<>>
    ELSE IF p[1] = "*"
         THEN glob_match(s, Tail(p)) \/ (s # <<>> /\ glob_match(Tail(s), p))
         ELSE s # <<>> /\ to_lower(s[1]) = to_lower(p[1]) /\ glob_match(Tail(s), Tail(p))

\* tree -P pattern: the alternatives are separated by '|'
patmatch(name, pattern) ==
    LET alts == split_on(pattern, "|")
    IN  \E i \in 1..Len(alts) : glob_match(name, alts[i])

\* name a sorts before name b, by the order in which tree sorts the '.' and
\* the letters of the model's names
RECURSIVE name_before(_, _)
name_before(a, b) ==
    LET SORT_ORDER == <<".", "a", "g", "h", "p", "x", "y">>
        char_rank(c) == CHOOSE i \in 1..Len(SORT_ORDER) : SORT_ORDER[i] = c
    IN  IF a = <<>> THEN b # <<>>
        ELSE IF b = <<>> THEN FALSE
        ELSE IF a[1] = b[1] THEN name_before(Tail(a), Tail(b))
        ELSE char_rank(a[1]) < char_rank(b[1])

\* the paths of a set in the order of their file names
sorted_by_name(S) ==
    CHOOSE perm \in Perms(S) :
        \A i, j \in 1..Len(perm) : i < j => name_before(file_name(perm[i]), file_name(perm[j]))

\* tree -P pattern --prune --matchdirs: whether the node p is listed.  Dot
\* files are hidden (no -a).  A file is listed when it matches; a directory
\* when it matches (--matchdirs) or when something below it is listed
\* (--prune); below a matching directory the pattern is not applied.
RECURSIVE tree_shows(_, _, _, _, _)
tree_shows(ds, fs, p, pattern, matching) ==
    LET name == file_name(p)
        hit == matching /\ patmatch(name, pattern)
    IN  /\ ~starts_with(name, <<".">>)
        /\ IF p \in DOMAIN fs THEN ~matching \/ hit
           ELSE \/ hit
                \/ \E k \in ds \cup DOMAIN fs :
                      is_child(k, p) /\ tree_shows(ds, fs, k, pattern, matching /\ ~hit)

\* the lines tree prints below the line of directory d: for each listed
\* child in name order its connector and name, then the child's own lines.
\* A line is recorded with the node it stands for.
RECURSIVE tree_listing(_, _, _, _, _, _)
tree_listing(ds, fs, d, pattern, matching, prefix) ==
    LET \* the connectors tree draws before a name: of the last child of a
        \* directory (its corner character written as '+'), of another child,
        \* and below a child that is not the last
        CORNER == <<"+", "-", "-", " ">>
        TEE == <<"|", "-", "-", " ">>
        BAR == <<"|", " ", " ", " ">>
        kids == sorted_by_name({k \in ds \cup DOMAIN fs :
                                  is_child(k, d) /\ tree_shows(ds, fs, k, pattern, matching)})
        RECURSIVE cat(_)
        cat(i) ==
            IF i > Len(kids) THEN <<>>
            ELSE LET k == kids[i]
                     last == i = Len(kids)
                     inner == matching /\ ~patmatch(file_name(k), pattern)
                 IN  <<[text |-> prefix \o (IF last THEN CORNER ELSE TEE)
                                        \o file_name(k),
                        node |-> k]>>
                     \o (IF k \in ds
                         THEN tree_listing(ds, fs, k, pattern, inner,
                                           prefix \o (IF last THEN INDENT ELSE BAR))
                         ELSE <<>>)
                     \o cat(i + 1)
    IN  cat(1)

\* the standard output of tree for PREFIX: the line of the directory it
\* was given, then the listing
tree_stdout(ds, fs, pattern) ==
    <<[text |-> PREFIX, node |-> resolve(PREFIX)]>>
    \o tree_listing(ds, fs, resolve(PREFIX), pattern, TRUE, <<>>)

\* Regex \.gpg(\x1B\[[0-9]+m)?( ->|$) replaced by "$1$2" in a line without
\* colour escapes: ".gpg" is removed at the end of the line and before " ->"
RECURSIVE strip_gpg(_)
strip_gpg(s) ==
    IF s = <<>> THEN <<>>
    ELSE IF s = GPG_EXT THEN <<>>
    ELSE IF starts_with(s, GPG_EXT \o <<" ", "-", ">">>)
         THEN <<" ", "-", ">">> \o strip_gpg(SubSeq(s, Len(GPG_EXT) + 4, Len(s)))
    ELSE <<s[1]>> \o strip_gpg(Tail(s))

\* "Search Terms: "
SEARCH_TERMS ==
    <<"S", "e", "a", "r", "c", "h", " ", "T", "e", "r", "m", "s", ":", " ">>

\* "Searching for passwords that match "
SEARCHING ==
    <<"S", "e", "a", "r", "c", "h", "i", "n", "g", " ", "f", "o", "r", " ", "p", "a", "s", "s", "w", "o", "r", "d", "s", " ", "t", "h", "a", "t", " ", "m", "a", "t", "c", "h", " ">>

\* how the spawned tree ends: exit status 0, another exit status, or the
\* program cannot be started
TreeOutcomes == {"ok", "fail", "missing"}

\* commands::find::cmd_find(pass_names)
cmd_find(pass_names, tree) ==
    LET terms == split_whitespace(pass_names)
        c0 == Command("find", pass_names, pass_names, FALSE)
        c1 == [c0 EXCEPT !.out = SEARCH_TERMS \o join(terms, <<",", " ">>)]
        lines == tree_stdout(dirs, files, find_pattern(terms))
        processed_lines == IF Len(lines) > 1 THEN Tail(lines) ELSE lines
        printed == [i \in 1..Len(processed_lines) |->
                      [processed_lines[i] EXCEPT !.text = strip_gpg(@)]]
    IN  /\ pc = "idle"
        /\ Starts
        /\ UNCHANGED <<dirs, files, signing>>
        /\ IF terms = <<>> THEN Ends(c0, "usage")
           ELSE IF tree = "missing" THEN Ends(c1, "panic")
           ELSE IF tree = "fail" THEN Ends(c1, "tree_failed")
           ELSE Ends([c1 EXCEPT !.lines = printed], "ok")

\* main::cmd_find(pass_names)
main_cmd_find(pass_names) ==
    /\ pc = "idle"
    /\ Starts
    /\ UNCHANGED <<dirs, files, signing>>
    /\ Ends([Command("main_find", pass_names, pass_names, FALSE)
                EXCEPT !.out = SEARCHING \o pass_names], "ok")

(***************************************************************************)
(* Signature verification and extensions (main::verify_file,               *)
(* main::cmd_extension)                                                    *)
(***************************************************************************)
\* fingerprint.len() == 40
FINGERPRINT_LEN == 40

\* the hexadecimal digits a u64 holds
U64_HEX_DIGITS == 16

is_hex_digit(c) ==
    c \in {"0", "1", "2", "3", "4", "5", "6", "7", "8", "9",
           "a", "b", "c", "d", "e", "f", "A", "B", "C", "D", "E", "F"}

\* str::trim_start_matches
RECURSIVE trim_start_matches(_, _)
trim_start_matches(s, c) ==
    IF s # <<>> /\ s[1] = c THEN trim_start_matches(Tail(s), c) ELSE s

\* u64::from_str_radix(src, 16).is_ok(): an optional '+', then at least one
\* digit, all of them hexadecimal, whose value is below 2^64
from_str_radix_is_ok(src) ==
    LET digits == IF src # <<>> /\ src[1] = "+" THEN Tail(src) ELSE src
    IN  /\ digits # <<>>
        /\ \A i \in 1..Len(digits) : is_hex_digit(digits[i])
        /\ Len(trim_start_matches(digits, "0")) <= U64_HEX_DIGITS

\* "[GNUPG:] VALIDSIG"
GNUPG_VALIDSIG ==
    <<"[", "G", "N", "U", "P", "G", ":", "]", " ", "V", "A", "L", "I", "D", "S", "I", "G">>

\* the status line gpg prints for a good signature: the fingerprint of the
\* signing key, the signature's creation date and time stamps, version,
\* algorithms and class, and the fingerprint of the primary key
validsig_line(fpr) ==
    GNUPG_VALIDSIG \o <<" ">> \o fpr
    \o <<" ", "2", "0", "2", "4", "-", "0", "1", "-", "0", "1", " ", "1", "7", "0", "4", "0", "6", "7", "2", "0", "0", " ", "0", " ", "4", " ", "0", " ", "1", " ", "1", "0", " ", "0", "0", " ">>
    \o fpr

\* the signing_key.split_whitespace().filter(..) of verify_file
signing_key_of(value) ==
    LET ws == split_whitespace(value)
    IN  {ws[i] : i \in {j \in 1..Len(ws) :
                          Len(ws[j]) = FINGERPRINT_LEN /\ from_str_radix_is_ok(ws[j])}}

\* the fingerprints verify_file collects: parts[3] of each VALIDSIG line
fingerprints_of(stdout) ==
    {split_whitespace(stdout[i])[4] :
        i \in {j \in 1..Len(stdout) :
                 /\ starts_with(stdout[j], GNUPG_VALIDSIG)
                 /\ Len(split_whitespace(stdout[j])) >= 4}}

\* main::verify_file(file_path): the status it ends the process with ("ok"
\* when it returns) and whether it found a valid signature.  key is <<>>
\* when PASSWORD_STORE_SIGNING_KEY is unset and <<value>> otherwise; gpg is
\* whether gpg could be spawned and the status lines it printed.
verify_file(file_path, key, gpg) ==
    IF key = <<>> THEN [status |-> "ok", found |-> FALSE]
    ELSE IF ~is_file(file_path \o SIG_EXT) THEN [status |-> "no_signature", found |-> FALSE]
    ELSE IF ~gpg.spawned THEN [status |-> "gpg_missing", found |-> FALSE]
    ELSE LET found == \E fingerprint \in signing_key_of(key[1]),
                         f \in fingerprints_of(gpg.stdout) : contains(f, fingerprint)
         IN  IF found THEN [status |-> "ok", found |-> TRUE]
             ELSE [status |-> "invalid_signature", found |-> FALSE]

\* ".bash"
BASH_EXT == <<".", "b", "a", "s", "h">>

\* main::cmd_extension(arg).  enable is whether
\* PASSWORD_STORE_ENABLE_EXTENSIONS is "true"; extensions and system are <<>>
\* for an unset EXTENSIONS or SYSTEM_EXTENSION_DIR and <<dir>> otherwise;
\* executable is the result of is_executable; key and gpg are as in
\* verify_file.  The extension prints nothing.
cmd_extension(arg, enable, extensions, system, executable, key, gpg) ==
    LET c0 == Command("extension", arg, IF key = <<>> THEN <<>> ELSE key[1], FALSE)
        user_extension == extensions[1] \o <<"/">> \o arg \o BASH_EXT
        system_extension == system[1] \o <<"/">> \o arg \o BASH_EXT
        v == verify_file(user_extension, key, gpg)
        c1 == [c0 EXCEPT !.path = user_extension,
                         !.gpg_status = IF key # <<>> /\ is_file(user_extension \o SIG_EXT)
                                           /\ gpg.spawned
                                        THEN gpg.stdout ELSE <<>>]
    IN  /\ pc = "idle"
        /\ Starts
        /\ UNCHANGED <<dirs, files, signing>>
        /\ IF check_sneaky_paths(<<arg>>) THEN Ends(c0, "panic")
           ELSE IF enable /\ extensions # <<>> /\ is_file(user_extension) /\ executable
           THEN IF v.status # "ok" THEN Ends(c1, v.status)
                ELSE Ends([c1 EXCEPT !.verified = v.found, !.out = <<"\n">>], "ok")
           ELSE IF system # <<>> /\ is_file(system_extension) /\ executable
           THEN Ends([c0 EXCEPT !.path = system_extension, !.out = <<"\n">>], "ok")
           ELSE Ends(c0, "no_extension")

(***************************************************************************)
(* How a handler reports the status it ends with                           *)
(***************************************************************************)
\* Every failure of a handler is an eprintln! followed by exit(1), except the
\* sneaky path and a program that cannot be spawned, which panic; the Err
\* values of reencrypt_path, sign_file and git_add_file are turned into
\* exit(1) by cmd_init.  "killed" is a termination from outside.
failure_report(st) ==
    CASE st \in {"ok", "running"} -> "none"
      [] st = "killed" -> "signal"
      [] st = "panic" -> "panic"
      [] st = "no_extension" -> "err"
      [] OTHER -> "exit"

(***************************************************************************)
(* Specification of the store                                              *)
(***************************************************************************)
Str_x == <<"x">>

Str_a == <<"a">>

\* entry names given to add and show: in the root and in a sub-directory
EntryNames == {Str_x, <<"a", "/", "x">>}

\* recipient identifiers
Ids == {<<"r">>, <<"t">>}

\* arguments of cmd_init: "GPG_ID", "GPG_ID/" and "GPG_ID/subfolder"; an empty
\* GPG_ID deinitializes
InitArgs ==
    Ids \cup {id \o <<"/">> \o sub : id \in Ids \cup {<<>>}, sub \in {<<>>, Str_a}}

\* the plaintext given to add
Plains == {<<"p">>}

Add ==
    \E n \in EntryNames, m \in Plains, force \in BOOLEAN, key \in {"found", "declined"},
       overwrite \in BOOLEAN :
        cmd_add(n, <<m>>, FALSE, FALSE, force, <<>>, <<>>, key, overwrite)

Show == \E n \in EntryNames \cup {<<>>} : cmd_show(n)

InitCmd ==
    \E a \in InitArgs :
        IF trim(splitn2(a)[1]) = <<>>
        THEN \E grm \in {"ok", "fail"} : cmd_init(a, "ok", TRUE, "ok", grm)
        ELSE \E g1 \in GitOutcomes,
                sign_ok \in (IF signing THEN BOOLEAN ELSE {TRUE}),
                g2 \in (IF signing THEN GitOutcomes ELSE {"ok"}) :
                 cmd_init(a, g1, sign_ok, g2, "ok")

ReencryptDone == \E g3 \in GitOutcomes : reencrypt_done(g3)

Next ==
    \/ Add
    \/ Show
    \/ InitCmd
    \/ reencrypt_decrypt
    \/ ReencryptDone
    \/ gpg_fail_early
    \/ gpg_open_output
    \/ gpg_fail_late
    \/ gpg_finish
    \/ cancel

Spec == Init /\ [][Next]_vars

(***************************************************************************)
(* Specification of a first command on an initialised store                *)
(*                                                                         *)
(* The store holds /s/.gpg-id for recipient r and the entry x (the state   *)
(* after `init r` and `add x p`).  One command runs on it with inputs from *)
(* the whole bounded universes: show with every raw name, or add with      *)
(* every plaintext in every input mode; an added entry is then shown.      *)
(***************************************************************************)
Str_r == <<"r">>

InitStore ==
    /\ dirs = {<<>>, StoreRoot}
    /\ files = (resolve(gpg_id_file_of(PREFIX)) :> Text(Append(Str_r, "\n")))
               @@ (resolve(passfile_of(Str_x)) :> Cipher(<<"p">>, Str_r))
    /\ signing = FALSE
    /\ pc = "idle"
    /\ cur = Command("none", <<>>, <<>>, FALSE)
    /\ status = "ok"
    /\ walk = <<>>
    /\ idx = 0
    /\ child = NoChild
    /\ clean = TRUE

\* names given to the first add: inside the store, and climbing out of it
FirstNames == {Str_x, <<".", ".", "/", "x">>}

ShowFirst ==
    /\ cur.cmd = "none"
    /\ \E n \in RawNames : cmd_show(n)

AddFirst ==
    /\ cur.cmd = "none"
    /\ \E n \in FirstNames, m \in RawPlains, retyped \in RawPlains, force \in BOOLEAN,
          mode \in {"arg", "multiline", "noecho", "echo"}, key \in KeyChecks, overwrite \in BOOLEAN :
           cmd_add(n, IF mode = "arg" THEN <<m>> ELSE <<>>, mode = "multiline", mode = "echo",
                   force, m, retyped, key, overwrite)

ShowAdded ==
    /\ cur.cmd = "add"
    /\ status = "ok"
    /\ cmd_show(cur.arg)

NextFirst ==
    \/ ShowFirst
    \/ AddFirst
    \/ ShowAdded
    \/ gpg_fail_early
    \/ gpg_open_output
    \/ gpg_fail_late
    \/ gpg_finish
    \/ cancel

SpecFirst == InitStore /\ [][NextFirst]_vars

(***************************************************************************)
(* Specification of init and deinit on a store with entries                *)
(*                                                                         *)
(* The store is initialised for recipient t and holds the entry x with     *)
(* plaintext p; in half of the initial states it also holds the entry a/x  *)
(* with plaintext q (added while only the root had a .gpg-id).  A signing  *)
(* key is configured or not.  Only init and deinit run, from either        *)
(* handler, until a command fails; no plaintext is ever replaced by a      *)
(* user.                                                                   *)
(***************************************************************************)
Str_t == <<"t">>

\* the plaintext each entry was added with
InitPlain(name) == IF name = Str_x THEN <<"p">> ELSE <<"q">>

InitSnap ==
    /\ \E sub \in BOOLEAN :
          /\ dirs = {<<>>, StoreRoot} \cup (IF sub THEN {resolve(store_dir_of(Str_a))} ELSE {})
          /\ files = [f \in {resolve(gpg_id_file_of(PREFIX))}
                            \cup {resolve(passfile_of(n)) :
                                    n \in (IF sub THEN EntryNames ELSE {Str_x})} |->
                        IF f = resolve(gpg_id_file_of(PREFIX)) THEN Text(Append(Str_t, "\n"))
                        ELSE IF f = resolve(passfile_of(Str_x))
                             THEN Cipher(InitPlain(Str_x), Str_t)
                             ELSE Cipher(InitPlain(<<"a", "/", "x">>), Str_t)]
    /\ signing \in BOOLEAN
    /\ pc = "idle"
    /\ cur = Command("none", <<>>, <<>>, FALSE)
    /\ status = "ok"
    /\ walk = <<>>
    /\ idx = 0
    /\ child = NoChild
    /\ clean = TRUE

\* the user runs init or deinit as long as the command before succeeded
InitNext ==
    /\ status = "ok"
    /\ InitCmd

\* main.rs always calls its cmd_init with format!("{}/{}", gpg_id, subfolder)
MainInit ==
    /\ status = "ok"
    /\ \E id \in Ids, sub \in {<<>>, Str_a} : main_cmd_init(id \o <<"/">> \o sub)

NextInit ==
    \/ InitNext
    \/ MainInit
    \/ reencrypt_decrypt
    \/ ReencryptDone
    \/ gpg_fail_early
    \/ gpg_open_output
    \/ gpg_fail_late
    \/ gpg_finish
    \/ cancel

SpecInit == InitSnap /\ [][NextInit]_vars

(***************************************************************************)
(* Specification of the listing                                            *)
(*                                                                         *)
(* The store is any of the trees that init and add can build from a few    *)
(* names: entries x and y in the root, a sub-directory a with its own      *)
(* .gpg-id and an entry, and a dot-named directory .h with an entry (the   *)
(* result of `add .h/x`).  The listing is printed again and again.         *)
(***************************************************************************)
Str_y == <<"y">>

Str_dot_h == <<".", "h">>

\* the files a store may hold besides the root's .gpg-id
TreeFiles ==
    {resolve(passfile_of(n)) :
        n \in {Str_x, Str_y, Str_a \o <<"/">> \o Str_x, Str_dot_h \o <<"/">> \o Str_x}}
    \cup {resolve(gpg_id_file_of(store_dir_of(Str_a)))}

\* the sub-directories a store may hold
TreeDirs == {resolve(store_dir_of(Str_a)), resolve(store_dir_of(Str_dot_h))}

TreeSnap ==
    /\ \E F \in SUBSET TreeFiles, D \in SUBSET TreeDirs :
          /\ \A f \in F : parent_of(f) = StoreRoot \/ parent_of(f) \in D
          /\ dirs = {<<>>, StoreRoot} \cup D
          /\ files = [f \in F \cup {resolve(gpg_id_file_of(PREFIX))} |->
                        IF extension(file_name(f)) = <<"g", "p", "g">>
                        THEN Cipher(<<"p">>, Str_t)
                        ELSE Text(Append(Str_t, "\n"))]
    /\ signing = FALSE
    /\ pc = "idle"
    /\ cur = Command("none", <<>>, <<>>, FALSE)
    /\ status = "ok"
    /\ walk = <<>>
    /\ idx = 0
    /\ child = NoChild
    /\ clean = TRUE

\* `pass` and `pass show` list the store; so does show of a name without entry
ListTree == \E n \in {<<>>, Str_a} : cmd_show(n)

NextTree == ListTree

SpecTree == TreeSnap /\ [][NextTree]_vars

(***************************************************************************)
(* Specification of the search                                             *)
(*                                                                         *)
(* The store is any of the trees of the listing's specification.  One      *)
(* search runs on it, from either handler, with every query of the bounded *)
(* universe: blanks, terms that match an entry, a directory (in another    *)
(* case), the entries' suffix, or nothing.                                 *)
(***************************************************************************)
MaxQueryLen == 3

QueryChars == {" ", "x", "A", "g"}

Queries == SeqsUpTo(QueryChars, MaxQueryLen)

FindCmd ==
    /\ cur.cmd = "none"
    /\ \E q \in Queries, tree \in TreeOutcomes : cmd_find(q, tree)

MainFind ==
    /\ cur.cmd = "none"
    /\ \E q \in Queries : main_cmd_find(q)

NextFind ==
    \/ FindCmd
    \/ MainFind

SpecFind == TreeSnap /\ [][NextFind]_vars

(***************************************************************************)
(* Specification of init on a sub-directory with a nested recipient        *)
(*                                                                         *)
(* The store is initialised for recipient t and holds the entries x and    *)
(* a/x; the directory a/b was initialised for recipient r and holds the    *)
(* entry a/b/x.  Init runs on a and on a/b as long as the command before   *)
(* succeeded.                                                              *)
(***************************************************************************)
Str_b == <<"b">>

Str_a_b == Str_a \o <<"/">> \o Str_b

NestedSnap ==
    /\ dirs = {<<>>, StoreRoot, resolve(store_dir_of(Str_a)), resolve(store_dir_of(Str_a_b))}
    /\ files = (resolve(gpg_id_file_of(PREFIX)) :> Text(Append(Str_t, "\n")))
               @@ (resolve(passfile_of(Str_x)) :> Cipher(<<"p">>, Str_t))
               @@ (resolve(passfile_of(Str_a \o <<"/">> \o Str_x)) :> Cipher(<<"p">>, Str_t))
               @@ (resolve(gpg_id_file_of(store_dir_of(Str_a_b))) :> Text(Append(Str_r, "\n")))
               @@ (resolve(passfile_of(Str_a_b \o <<"/">> \o Str_x)) :> Cipher(<<"q">>, Str_r))
    /\ signing \in BOOLEAN
    /\ pc = "idle"
    /\ cur = Command("none", <<>>, <<>>, FALSE)
    /\ status = "ok"
    /\ walk = <<>>
    /\ idx = 0
    /\ child = NoChild
    /\ clean = TRUE

NestedInit ==
    /\ status = "ok"
    /\ \E id \in Ids, sub \in {Str_a, Str_a_b}, g1 \in GitOutcomes,
          sign_ok \in (IF signing THEN BOOLEAN ELSE {TRUE}),
          g2 \in (IF signing THEN GitOutcomes ELSE {"ok"}) :
           cmd_init(id \o <<"/">> \o sub, g1, sign_ok, g2, "ok")

NextNested ==
    \/ NestedInit
    \/ reencrypt_decrypt
    \/ ReencryptDone
    \/ gpg_fail_early
    \/ gpg_open_output
    \/ gpg_fail_late
    \/ gpg_finish
    \/ cancel

SpecNested == NestedSnap /\ [][NextNested]_vars

(***************************************************************************)
(* Specification of a signed store                                         *)
(*                                                                         *)
(* The store holds /s/.gpg-id for recipient r with its signature           *)
(* /s/.gpg-id.sig and the entry x; the extension directory /e holds the    *)
(* extension .bash (the one `pass` without arguments looks for), with or   *)
(* without a signature.  PASSWORD_STORE_SIGNING_KEY is set or not.  One    *)
(* command runs: the extension lookup under every environment, or an add.  *)
(***************************************************************************)
EXT_DIR == <<"/", "e">>

RECURSIVE repeat(_, _)
repeat(c, n) == IF n = 0 THEN <<>> ELSE <<c>> \o repeat(c, n - 1)

\* a fingerprint of 40 hexadecimal digits of which the last k are significant
fingerprint(k) == repeat("0", FINGERPRINT_LEN - k) \o repeat("A", k)

\* fingerprints of keys: one whose value fits in 64 bits, one that exceeds
\* them by a digit, and one with 40 significant digits
KeyFingerprints == {fingerprint(U64_HEX_DIGITS), fingerprint(U64_HEX_DIGITS + 1),
                    fingerprint(FINGERPRINT_LEN)}

\* values of PASSWORD_STORE_SIGNING_KEY: a fingerprint, two of them, one that
\* is a digit short, one with a letter that is no digit
KeyValues ==
    KeyFingerprints
    \cup {fingerprint(U64_HEX_DIGITS) \o <<" ">> \o fingerprint(FINGERPRINT_LEN),
          repeat("A", FINGERPRINT_LEN - 1),
          repeat("A", FINGERPRINT_LEN - 1) \o <<"g">>}

\* what `gpg --verify --status-fd=1` can do: fail to start, report nothing
\* valid, or report a valid signature of one of the keys
GpgVerifyOutcomes ==
    {[spawned |-> FALSE, stdout |-> <<>>], [spawned |-> TRUE, stdout |-> <<>>]}
    \cup {[spawned |-> TRUE, stdout |-> <<validsig_line(fpr)>>] : fpr \in KeyFingerprints}

SignedStore ==
    /\ dirs = {<<>>, StoreRoot, resolve(EXT_DIR)}
    /\ \E sidecar \in BOOLEAN :
          files = (resolve(gpg_id_file_of(PREFIX)) :> Text(Append(Str_r, "\n")))
                  @@ (resolve(gpg_id_file_of(PREFIX) \o SIG_EXT) :> Signature)
                  @@ (resolve(passfile_of(Str_x)) :> Cipher(<<"p">>, Str_r))
                  @@ (resolve(EXT_DIR \o <<"/">> \o BASH_EXT) :> Text(<<>>))
                  @@ (IF sidecar
                      THEN resolve(EXT_DIR \o <<"/">> \o BASH_EXT \o SIG_EXT) :> Signature
                      ELSE <<>>)
    /\ signing \in BOOLEAN
    /\ pc = "idle"
    /\ cur = Command("none", <<>>, <<>>, FALSE)
    /\ status = "ok"
    /\ walk = <<>>
    /\ idx = 0
    /\ child = NoChild
    /\ clean = TRUE

\* `pass` without a subcommand: main calls cmd_extension_or_show(""), which
\* starts with cmd_extension("")
Extension ==
    /\ cur.cmd = "none"
    /\ \E enable \in BOOLEAN, extensions \in {<<>>, <<EXT_DIR>>}, system \in {<<>>, <<EXT_DIR>>},
          executable \in BOOLEAN,
          key \in (IF signing THEN {<<k>> : k \in KeyValues} ELSE {<<>>, <<<<" ">>>>}),
          gpg \in GpgVerifyOutcomes :
           cmd_extension(<<>>, enable, extensions, system, executable, key, gpg)

AddSigned ==
    /\ cur.cmd = "none"
    /\ \E n \in {Str_x, Str_y}, force \in BOOLEAN :
          cmd_add(n, <<<<"p">>>>, FALSE, FALSE, force, <<>>, <<>>, "found", TRUE)

NextSigned ==
    \/ Extension
    \/ AddSigned
    \/ gpg_fail_early
    \/ gpg_open_output
    \/ gpg_fail_late
    \/ gpg_finish
    \/ cancel

SpecSigned == SignedStore /\ [][NextSigned]_vars

(***************************************************************************)
(* Vocabulary of the claims                                                *)
(***************************************************************************)
\* the recipient identifiers a RecipientFile text declares: its non-blank
\* lines, trimmed
recipient_lines(text) ==
    LET ls == split_on(text, "\n")
    IN  {trim(ls[i]) : i \in 1..Len(ls)} \ {<<>>}

has_recipient_file(fs, d) == Append(d, GPG_ID) \in DOMAIN fs

\* a directory on the path from d up to the store root has a RecipientFile
RECURSIVE enclosing_exists(_, _)
enclosing_exists(fs, d) ==
    /\ is_prefix(StoreRoot, d)
    /\ \/ has_recipient_file(fs, d)
       \/ d # StoreRoot /\ enclosing_exists(fs, parent_of(d))

\* the recipients of the nearest such directory
RECURSIVE nearest_recipients(_, _)
nearest_recipients(fs, d) ==
    IF has_recipient_file(fs, d) THEN recipient_lines(fs[Append(d, GPG_ID)].data)
    ELSE IF d = StoreRoot \/ ~is_prefix(StoreRoot, d) THEN {}
    ELSE nearest_recipients(fs, parent_of(d))

\* the directory a command resolves recipients for: the entry's directory
\* for add, the subfolder for init
target_dir(c) ==
    IF c.cmd = "add" THEN parent_of(resolve(passfile_of(c.arg)))
    ELSE resolve(store_dir_of(c.arg))

is_entry(p) == extension(file_name(p)) = <<"g", "p", "g">>

\* the RecipientFile of the directory an init or deinit works on
target_id_file(c) == resolve(gpg_id_file_of(store_dir_of(c.arg)))

\* an init (a non-blank GPG id), a deinit (a blank one)
is_init(c) == c.cmd \in {"init", "main_init"} /\ trim(c.input) # <<>>

is_deinit(c) == c.cmd = "init" /\ trim(c.input) = <<>>

\* a metadata-named node: its name starts with a dot
dot_named(name) == name # <<>> /\ name[1] = "."

\* the nodes of the store a listing shows: those below the root with no
\* dot-named component on the way
visible_nodes(ds, fs) ==
    {q \in ds \cup DOMAIN fs :
        /\ Len(q) > Len(StoreRoot)
        /\ is_prefix(StoreRoot, q)
        /\ \A i \in (Len(StoreRoot) + 1)..Len(q) : ~dot_named(q[i])}

\* n levels of indentation
RECURSIVE indentation(_)
indentation(n) == IF n = 0 THEN <<>> ELSE INDENT \o indentation(n - 1)

\* the line of a visible node: indented by its depth, an entry without
\* its .gpg suffix
expected_line(fs, q) ==
    LET name == file_name(q)
        shown == IF q \in DOMAIN fs /\ is_entry(q)
                 THEN SubSeq(name, 1, Len(name) - Len(GPG_EXT)) ELSE name
    IN  indentation(Len(q) - Len(StoreRoot) - 1) \o <<BOX, " ">> \o shown

\* the ways re-encryption fails
ReencryptErrors ==
    {"not_dir", "not_initialized", "no_recipient", "decrypt_failed", "encrypt_failed"}

has_dotdot_segment(name) == \E i \in 1..Len(split(name)) : split(name)[i] = DOTDOT

\* the four string tests of the validator's contract, written on positions
rejected_by_contract(s) ==
    \/ Len(s) = 2 /\ s[1] = "." /\ s[2] = "."
    \/ Len(s) >= 3 /\ s[1] = "." /\ s[2] = "." /\ s[3] = "/"
    \/ \E i \in 1..(Len(s) - 3) :
          s[i] = "/" /\ s[i + 1] = "." /\ s[i + 2] = "." /\ s[i + 3] = "/"
    \/ Len(s) >= 3 /\ s[Len(s) - 2] = "/" /\ s[Len(s) - 1] = "." /\ s[Len(s)] = "."

\* the text of a name in lower case
lower(s) == [i \in 1..Len(s) |-> to_lower(s[i])]

\* the name of node q contains one of the terms, case ignored
name_contains_term(q, terms) ==
    \E i \in 1..Len(terms) : contains(lower(file_name(q)), lower(terms[i]))

\* the nodes a search for the terms returns by its contract: the visible
\* nodes that match and their ancestor directories below the root
search_results(ds, fs, terms) ==
    {q \in visible_nodes(ds, fs) :
        \E k \in visible_nodes(ds, fs) : is_prefix(q, k) /\ name_contains_term(k, terms)}

\* the nodes below the root that the printed lines of a search stand for
returned_nodes(c) == {c.lines[i].node : i \in 1..Len(c.lines)} \ {StoreRoot}

has_dot_segment(name) == \E i \in 1..Len(split(name)) : split(name)[i] = <<".">>

\* a directory from d up to, but not including, the directory top has a
\* RecipientFile of its own
RECURSIVE own_recipient_below(_, _, _)
own_recipient_below(fs, top, d) ==
    /\ d # top
    /\ is_prefix(top, d)
    /\ \/ has_recipient_file(fs, d)
       \/ own_recipient_below(fs, top, parent_of(d))

\* the files an init on the directory top has no business with: those
\* outside top, the RecipientFiles and SignatureFiles of other directories,
\* and the entries below a descendant directory with its own RecipientFile
outside_init_frame(fs, top, p) ==
    \/ ~is_prefix(top, p)
    \/ /\ p \notin {Append(top, GPG_ID), Append(top, GPG_ID \o SIG_EXT)}
       /\ \/ ~is_entry(p)
          \/ own_recipient_below(fs, top, parent_of(p))

\* a fingerprint: 40 hexadecimal digits
is_fingerprint(w) == Len(w) = FINGERPRINT_LEN /\ \A i \in 1..Len(w) : is_hex_digit(w[i])

\* the RecipientFile whose recipients a command used
used_id_file(c) ==
    IF c.cmd = "add" THEN resolve(gpg_id_file_of(PREFIX)) ELSE target_id_file(c)

\* the SignatureFile next to a file
sidecar_of(p) == Append(parent_of(p), file_name(p) \o SIG_EXT)

(***************************************************************************)
(* Claims                                                                  *)
(***************************************************************************)
\* C1: re-encryption of one entry is all-or-nothing: in every step of an
\* init/reencrypt run, failure and cancellation included, an entry that held a
\* complete ciphertext holds afterwards that same ciphertext or a complete
\* ciphertext of the same plaintext for the newly resolved recipient.
C1_AllOrNothing ==
    [][(cur'.cmd = "init" /\ clean') =>
         \A p \in DOMAIN files :
            is_entry(p) /\ files[p].kind = "cipher" =>
               \/ content_of(files', p) = files[p]
               \/ content_of(files', p) = Cipher(files[p].data, cur'.rcpt)]_vars

\* C2: when the walk e1..en of reencrypt fails first at ek, every entry before
\* ek is a complete ciphertext for the new recipient, ek holds the ciphertext
\* it held before it was processed, no entry after ek is touched, and the
\* error names ek.
C2_StopsAtFirstFailure ==
    [][(/\ cur.cmd = "init"
        /\ clean
        /\ pc \in {"walk", "enc"}
        /\ pc' = "idle"
        /\ status' \in {"decrypt_failed", "encrypt_failed"}) =>
         /\ \A i \in 1..(idx - 1) :
               /\ content_of(files', walk[i]).kind = "cipher"
               /\ content_of(files', walk[i]).rcpt = cur.rcpt
         /\ content_of(files', walk[idx])
               = (IF pc = "enc" THEN child.before ELSE content_of(files, walk[idx]))
         /\ \A j \in (idx + 1)..Len(walk) :
               content_of(files', walk[j]) = content_of(files, walk[j])
         /\ cur'.errpath = walk[idx]]_vars

\* C3: every complete ciphertext written to an entry is encrypted to exactly
\* the recipients of the nearest enclosing directory that has a RecipientFile
\* at the time of the write.
C3_EncryptedToNearest ==
    [][\A p \in DOMAIN files' :
          (/\ clean'
           /\ status' \in {"ok", "running"}
           /\ is_entry(p)
           /\ files'[p].kind = "cipher"
           /\ files'[p] # content_of(files, p)) =>
             {files'[p].rcpt} = nearest_recipients(files', parent_of(p))]_vars

\* C4: the recipient an operation resolves for its target directory is that
\* of the nearest enclosing directory with a RecipientFile, from the target
\* up to the store root.
C4_ResolvesNearest ==
    (clean /\ cur.cmd \in {"add", "init"} /\ cur.rcpt # <<>>) =>
        {cur.rcpt} = nearest_recipients(files, target_dir(cur))

\* C5: resolution fails with NotInitialized exactly when no directory from
\* the target up to the store root has a RecipientFile.
C5_NotInitializedIff ==
    /\ (clean /\ cur.cmd \in {"add", "init"} /\ status = "not_initialized") =>
          ~enclosing_exists(files, target_dir(cur))
    /\ (clean /\ cur.cmd = "add" /\ status # "store_missing"
           /\ ~enclosing_exists(files, target_dir(cur))) =>
          status = "not_initialized"

\* C6: an add without force that reaches the check of an existing entry
\* fails with AlreadyExists, waits for no input and changes no file.
C6_AlreadyExists ==
    [][(/\ pc = "idle"
        /\ clean'
        /\ cur'.cmd = "add"
        /\ ~cur'.force
        /\ resolve(passfile_of(cur'.arg)) \in DOMAIN files
        /\ status' \notin {"store_missing", "not_initialized", "no_key"}) =>
         /\ status' = "already_exists"
         /\ ~cur'.asked
         /\ files' = files]_vars

\* C7: while add overwrites an existing entry, in every step the entry holds
\* its complete previous ciphertext, until the step in which add succeeds.
C7_AddKeepsOldEntry ==
    [][(cur'.cmd = "add" /\ clean') =>
         LET p == resolve(passfile_of(cur'.arg))
         IN  (p \in DOMAIN files /\ files[p].kind = "cipher") =>
                \/ content_of(files', p) = files[p]
                \/ status' = "ok" /\ content_of(files', p).kind = "cipher"]_vars

\* C8: showing an entry right after a successful add of plaintext m prints m
\* (followed by println's line break), whatever the input mode.
C8_RoundTrip ==
    [][(/\ cur.cmd = "add"
        /\ status = "ok"
        /\ cur'.cmd = "show"
        /\ cur'.arg = cur.arg
        /\ cur'.dec_ok) =>
         cur'.out = Append(cur.input, "\n")]_vars

\* C9: show's path validation rejects a raw name exactly when it equals "..",
\* starts with "../", contains "/../" or ends with "/..", and an accepted
\* name is used as given: the path is PREFIX/<name>.gpg, character for
\* character.
C9_RejectsExactly ==
    cur.cmd = "show" =>
        /\ (status = "panic") <=> rejected_by_contract(cur.arg)
        /\ status # "panic" => cur.path = PREFIX \o <<"/">> \o cur.arg \o GPG_EXT

\* C9 witness: show was given x/../x and panicked
C9_Witness ==
    /\ cur.cmd = "show"
    /\ cur.arg = <<"x", "/", ".", ".", "/", "x">>
    /\ status = "panic"

\* C10: a command given a name with a ".." segment rejects it before it makes
\* any filesystem call with a path built from it.
C10_ValidatedBeforeUse ==
    (cur.cmd \in {"add", "show", "init"} /\ has_dotdot_segment(cur.arg)) =>
        cur.path = <<>> /\ status = "panic"

\* C11: show of a non-empty name whose entry file does not exist fails with
\* a not-found error and prints nothing else: no listing of the store.
C11_ShowNotFound ==
    (/\ cur.cmd = "show"
     /\ cur.arg # <<>>
     /\ status # "panic"
     /\ exists(PREFIX)
     /\ ~exists(passfile_of(cur.arg))) =>
        /\ status = "not_found"
        /\ ~cur.listed
        /\ cur.lines = <<>>
        /\ cur.out = <<>>

\* C12: show of an existing entry whose `gpg -d` exits non-zero fails with a
\* backend failure and prints nothing as if it were the plaintext.
C12_ShowBackendFailure ==
    (/\ cur.cmd = "show"
     /\ status # "panic"
     /\ exists(passfile_of(cur.arg))
     /\ ~cur.dec_ok) =>
        /\ status = "backend_failure"
        /\ cur.out = <<>>

\* C13: a deinit on a directory without .gpg-id fails and leaves every file,
\* every directory and the history as they were.
C13_DeinitGuard ==
    [][(/\ pc = "idle"
        /\ is_deinit(cur')
        /\ target_id_file(cur') \notin DOMAIN files \cup dirs) =>
         /\ status' = "cannot_remove"
         /\ files' = files
         /\ dirs' = dirs
         /\ cur'.commits = 0]_vars

\* C13 witness: deinit of a, which holds an entry and no .gpg-id, was refused
C13_Witness ==
    /\ is_deinit(cur)
    /\ cur.arg = Str_a
    /\ status = "cannot_remove"
    /\ resolve(passfile_of(<<"a", "/", "x">>)) \in DOMAIN files

\* C14: an init of a subfolder that holds nothing else, followed by a deinit
\* of that subfolder, ends successfully and leaves no directory behind.
C14_InitDeinitRoundTrip ==
    [][(/\ pc = "idle"
        /\ is_init(cur)
        /\ cur.cmd = "init"
        /\ status = "ok"
        /\ cur.arg # <<>>
        /\ \A q \in dirs \cup DOMAIN files :
              is_child(q, resolve(store_dir_of(cur.arg))) =>
                 file_name(q) \in {GPG_ID, GPG_ID \o SIG_EXT}
        /\ is_deinit(cur')
        /\ cur'.arg = cur.arg) =>
         /\ status' = "ok"
         /\ resolve(store_dir_of(cur.arg)) \notin dirs']_vars

\* C15: a deinit on a directory that has a .gpg-id and still holds entries
\* removes the .gpg-id and ends successfully.
C15_DeinitSucceeds ==
    [][(/\ pc = "idle"
        /\ is_deinit(cur')
        /\ target_id_file(cur') \in DOMAIN files
        /\ \E q \in DOMAIN files :
              is_child(q, resolve(store_dir_of(cur'.arg))) /\ is_entry(q)) =>
         /\ target_id_file(cur') \notin DOMAIN files'
         /\ status' = "ok"]_vars

\* C16: when init fails at signing no entry has been re-encrypted and none
\* will be; when it fails at signing or in re-encryption the .gpg-id holds
\* the new ids; and the signature is written before re-encryption starts.
C16_WriteSignReencrypt ==
    [][(cur'.cmd = "init" /\ is_init(cur')) =>
         /\ (pc = "idle" /\ status' = "sign") =>
               /\ pc' = "idle"
               /\ \A q \in DOMAIN files \cup DOMAIN files' :
                     is_entry(q) => content_of(files', q) = content_of(files, q)
         /\ status' \in {"sign"} \cup ReencryptErrors =>
               /\ pc' = "idle"
               /\ target_id_file(cur') \in DOMAIN files'
               /\ recipient_lines(files'[target_id_file(cur')].data) = {trim(cur'.input)}
         /\ (signing /\ (pc' \in {"walk", "enc"} \/ status' \in ReencryptErrors)) =>
               resolve(gpg_id_file_of(store_dir_of(cur'.arg)) \o SIG_EXT) \in DOMAIN files']_vars

\* C16 witness: init r failed at signing; .gpg-id names r, x is still
\* encrypted to t
C16_Witness ==
    /\ cur.cmd = "init"
    /\ cur.input = Str_r
    /\ cur.arg = <<>>
    /\ status = "sign"
    /\ files[resolve(gpg_id_file_of(PREFIX))] = Text(Append(Str_r, "\n"))
    /\ files[resolve(passfile_of(Str_x))] = Cipher(<<"p">>, Str_t)

\* C17: after a successful init the target directory's .gpg-id holds the
\* given ids and every entry in the target directory is encrypted to them.
C17_InitReencrypts ==
    (is_init(cur) /\ status = "ok" /\ pc = "idle") =>
        /\ target_id_file(cur) \in DOMAIN files
        /\ recipient_lines(files[target_id_file(cur)].data) = {trim(cur.input)}
        /\ \A q \in DOMAIN files :
              (is_entry(q) /\ is_child(q, resolve(store_dir_of(cur.arg)))) =>
                 /\ files[q].kind = "cipher"
                 /\ files[q].rcpt = trim(cur.input)

\* C18: re-encryption never changes plaintext: whatever inits and deinits
\* have run, every entry that holds a complete ciphertext decrypts to the
\* plaintext it was added with.
C18_PlaintextKept ==
    \A n \in EntryNames :
        content_of(files, resolve(passfile_of(n))).kind = "cipher" =>
            files[resolve(passfile_of(n))].data = InitPlain(n)

\* C18 witness: a successful init r; the entries x and a/x, encrypted to t
\* before, are now encrypted to r
C18_Witness ==
    /\ cur.cmd = "init"
    /\ status = "ok"
    /\ files[resolve(passfile_of(Str_x))] = Cipher(<<"p">>, Str_r)
    /\ content_of(files, resolve(passfile_of(<<"a", "/", "x">>))) = Cipher(<<"q">>, Str_r)

\* C19: two listings of the same unmodified store print the same lines in
\* the same order.
C19_RenderDeterministic ==
    [][(/\ cur.cmd = "show"
        /\ cur.listed
        /\ cur'.cmd = "show"
        /\ cur'.listed
        /\ cur'.arg = cur.arg
        /\ dirs' = dirs
        /\ files' = files) =>
         cur'.lines = cur.lines]_vars

\* C20: below its header a listing has exactly one line per visible node,
\* indented by the node's depth, entries without their .gpg suffix, and no
\* line for a dot-named file or directory or for anything inside one.
C20_RenderedTree ==
    (cur.cmd = "show" /\ cur.listed) =>
        LET body == Tail(cur.lines)
            V == visible_nodes(dirs, files)
        IN  /\ Len(body) = Cardinality(V)
            /\ \A q \in V : \E i \in 1..Len(body) : body[i] = expected_line(files, q)

\* C21: a search whose list of terms is empty (an empty or all-blank input
\* string) fails with the empty-query error and prints nothing, whichever
\* handler runs it.
C21_EmptyQuery ==
    (cur.cmd \in {"find", "main_find"} /\ split_whitespace(cur.input) = <<>>) =>
        status = "usage" /\ cur.lines = <<>> /\ cur.out = <<>>

\* C22: a successful search returns exactly the visible nodes whose name
\* contains one of the terms, case ignored, and their ancestor directories.
C22_SearchResults ==
    (cur.cmd = "find" /\ status = "ok") =>
        returned_nodes(cur) = search_results(dirs, files, split_whitespace(cur.input))

\* C28: no line a successful search prints is the header of the listing (the
\* line of the store root), also when nothing matches.
C28_HeaderDropped ==
    (cur.cmd = "find" /\ status = "ok") =>
        \A i \in 1..Len(cur.lines) :
            cur.lines[i].node # StoreRoot /\ cur.lines[i].text # PREFIX

\* C23: when a command has ended, a successful add and a successful deinit have
\* recorded exactly one description with the history tracker, a failed
\* command none, and a show none.
C23_HistoryRecords ==
    (pc = "idle" /\ cur.cmd \in {"add", "init", "show"}) =>
        /\ (status = "ok" /\ (cur.cmd = "add" \/ is_deinit(cur))) => cur.commits = 1
        /\ status # "ok" => cur.commits = 0
        /\ cur.cmd = "show" => cur.commits = 0

\* C26: a name passes the path validation of show exactly when none of its
\* '/'-separated segments is ".." or ".".
C26_SegmentwiseValidation ==
    cur.cmd = "show" =>
        ((status # "panic") <=> ~(has_dotdot_segment(cur.arg) \/ has_dot_segment(cur.arg)))

\* C29: an add that has failed (no key, declined overwrite, mismatched
\* confirmation, encryption failure) has left the store as it found it: on
\* the store that holds the root's .gpg-id and the entry x, the directories
\* and every file's content are those of before.
C29_FailedAddFrame ==
    (cur.cmd = "add" /\ pc = "idle" /\ status \notin {"ok", "killed"}) =>
        /\ dirs = {<<>>, StoreRoot}
        /\ files = (resolve(gpg_id_file_of(PREFIX)) :> Text(Append(Str_r, "\n")))
                   @@ (resolve(passfile_of(Str_x)) :> Cipher(<<"p">>, Str_r))

\* C30: in every step of an init on a sub-directory, a file outside that
\* directory, a RecipientFile or SignatureFile of another directory, and an
\* entry below a descendant directory that has its own RecipientFile all
\* stay in place with their content.
C30_InitFrame ==
    [][(cur'.cmd = "init" /\ is_init(cur')) =>
         \A p \in DOMAIN files :
             outside_init_frame(files, target_dir(cur'), p) =>
                 p \in DOMAIN files' /\ files'[p] = files[p]]_vars

\* C25: no command of the core ends by terminating the process: when a
\* command has ended, its failure was not reported by exit or by a panic.
C25_NeverTerminates ==
    (pc = "idle" /\ cur.cmd # "none") => failure_report(status) \notin {"exit", "panic"}

\* C24: a command (add, init with its re-encryption) that has read recipients
\* from a RecipientFile with a SignatureFile sidecar has verified that
\* signature.
C24_VerifiedBeforeUse ==
    (cur.cmd \in {"add", "init"} /\ cur.rcpt # <<>>
       /\ sidecar_of(used_id_file(cur)) \in DOMAIN files) =>
        cur.verified

\* C27: when verify_file ran on a file with a signature sidecar and the
\* configured key list holds a fingerprint of 40 hexadecimal digits that
\* appears in a VALIDSIG status line gpg printed, verify_file accepted the
\* file: the command went on and did not terminate.
C27_VerifyAccepts ==
    (/\ cur.cmd = "extension"
     /\ \E i \in 1..Len(split_whitespace(cur.input)), j \in 1..Len(cur.gpg_status) :
           /\ is_fingerprint(split_whitespace(cur.input)[i])
           /\ starts_with(cur.gpg_status[j], GNUPG_VALIDSIG)
           /\ contains(cur.gpg_status[j], split_whitespace(cur.input)[i])) =>
        status = "ok" /\ cur.verified

====
